---- MODULE Spec2Model ----
(***************************************************************************)
(* A model of lale's halving grid-search optimizer                         *)
(* (lale/lib/lale/halving_grid_search_cv.py) and of the schema-described   *)
(* DecisionTreeRegressor wrapper (lale/lib/sklearn/decision_tree_          *)
(* regressor.py).                                                          *)
(*                                                                         *)
(* Python values are tagged records: [t |-> "None"], [t |-> "int", v |-> 5]*)
(* and so on, so that values of different Python types can be compared.    *)
(* The external successive-halving search, the grid generator and the      *)
(* refit are black boxes: every outcome they can produce is a choice of    *)
(* the action that calls them.                                             *)
(***************************************************************************)
EXTENDS Integers, Sequences, FiniteSets, TLC

VARIABLES
    ctorArgs,  \* the arguments __init__ was called with; None before the call
    hp,        \* self._hyperparams of the optimizer; None before __init__ ran
    best,      \* self._best_estimator
    grid,      \* self.grid, the external search object
    calls,     \* the outward calls of the most recent fit, in order
    result,    \* how the most recent operation ended
    nInst,     \* how often __init__ instantiated an observer class
    fitted,    \* whether a fit of the optimizer has returned so far
    dtrArgs,   \* the arguments DecisionTreeRegressorImpl.__init__ was called
               \* with; None before the call
    dtr,       \* the DecisionTreeRegressorImpl object; None before __init__
    dtrResult, \* how the most recent operation on dtr ended, and the calls
               \* it made on the wrapped model
    res,       \* the resampler operator the interoperability test holds;
               \* None before it constructed one
    resResult, \* how the test's most recent operation on a resampler ended
    dummy      \* the most recent validation against DummyClassifier's
               \* hyperparameter schema; None before the first

vars ==
    <<ctorArgs, hp, best, grid, calls, result, nInst, fitted, dtrArgs, dtr,
      dtrResult, res, resResult, dummy>>
hgsVars == <<ctorArgs, hp, best, grid, calls, result, nInst, fitted>>
dtrVars == <<dtrArgs, dtr, dtrResult>>
resVars == <<res, resResult>>

---------------------------------------------------------------------------
(* Python values *)

None == [t |-> "None"]
PyInt(n) == [t |-> "int", v |-> n]
PyStr(s) == [t |-> "str", v |-> s]
PyBool(b) == [t |-> "bool", v |-> b]
\* a float, held in hundredths: PyFloat(50) is 0.5
PyFloat(c) == [t |-> "float", c |-> c]

---------------------------------------------------------------------------
(* Bounds *)

\* the longest param_grid list a caller passes
MaxGridLen == 1

\* how many of DecisionTreeRegressorImpl's constructor arguments a caller
\* gives; the others take their defaults
MaxOverrides == 2

---------------------------------------------------------------------------
(* Operators of the framework, as far as fit looks at them *)

MkOp(name, individual, trainable, classifier) ==
    [t |-> "op", name |-> name, individual |-> individual,
     trainable |-> trainable, classifier |-> classifier]

\* lale.lib.sklearn.LogisticRegression, the default estimator
LogisticRegression == MkOp("LogisticRegression", TRUE, FALSE, TRUE)

\* the estimators a caller passes: None, individual operators and pipelines,
\* planned and trainable, classifiers and regressors
Estimators ==
    { None,
      LogisticRegression,
      MkOp("PCA >> LogisticRegression", FALSE, FALSE, TRUE),
      MkOp("PCA() >> DecisionTreeRegressor()", FALSE, TRUE, FALSE) }

\* op.is_classifier()
is_classifier(op) == op.classifier

\* isinstance(op, lale.operators.IndividualOp)
IsIndividualOp(op) == op.individual

\* isinstance(op, lale.operators.TrainableOperator)
IsTrainableOperator(op) == op.trainable

---------------------------------------------------------------------------
(* Hyperparameter grids.  A hyperparameter name is the sequence of its     *)
(* "__"-separated parts: "op__C" is <<"op", "C">>.  A dict maps names to   *)
(* the list of values to try.                                              *)

PyDict(d) == [t |-> "dict", d |-> d]
PyList(l) == [t |-> "list", l |-> l]

EmptyDict == [k \in {} |-> <<>>]
DictC == [k \in {<<"C">>} |-> <<1, 10>>]
Dicts == {EmptyDict, DictC}

Lists == UNION {[1..n -> Dicts] : n \in 0..MaxGridLen}

\* the param_grid arguments a caller passes: None, a dict, a list of dicts,
\* or something that is neither (a tuple)
ParamGrids ==
    {None} \cup {PyDict(d) : d \in Dicts} \cup {PyList(l) : l \in Lists}
           \cup {[t |-> "tuple"]}

\* lale.helpers.nest_HPparams(name, grid): every key gets the prefix `name`
nest_HPparams(name, d) ==
    [k \in {<<name>> \o j : j \in DOMAIN d} |-> d[Tail(k)]]

\* lale.helpers.nest_all_HPparams(name, grids)
nest_all_HPparams(name, l) ==
    [i \in 1..Len(l) |-> nest_HPparams(name, l[i])]

\* what lale.search.lale_grid_search_cv.get_parameter_grids can return for
\* an Observing-wrapped operator: a list of grids, which may be empty
GeneratedGrids ==
    { PyList(<<>>),
      PyList(<<nest_HPparams("op", DictC)>>) }

\* lale.search.lale_grid_search_cv.get_defaults_as_param_grid(observed_op)
get_defaults_as_param_grid(observed_op) ==
    [k \in {<<"op", "C">>} |-> <<1>>]

\* Python truthiness of a grid: an empty dict or list is false
Truthy(g) ==
    CASE g.t = "dict" -> DOMAIN g.d # {}
      [] g.t = "list" -> Len(g.l) > 0
      [] OTHER -> g.t # "None"

---------------------------------------------------------------------------
(* _HalvingGridSearchCVImpl.__init__ *)

\* the observers a caller passes: None, a class, or an object
Observers ==
    { None,
      [t |-> "class", name |-> "LoggingObserver"],
      [t |-> "object", id |-> "observer0"] }

\* observer(): a new instance of the class
Instantiate(cls) == [t |-> "object", id |-> cls.name]

\* the scoring arguments a caller passes
Scorings == {None, PyStr("roc_auc")}

\* the (lale_num_samples, lale_num_grids, pgo) arguments a caller passes
GenArgs ==
    { [lale_num_samples |-> None, lale_num_grids |-> None, pgo |-> None],
      [lale_num_samples |-> PyInt(2), lale_num_grids |-> PyInt(1),
       pgo |-> [t |-> "PGO"]] }

\* the defaults of the constructor's parameters
HGSCtorDefaults ==
    [estimator |-> None, param_grid |-> None, scoring |-> None,
     n_jobs |-> None, cv |-> PyInt(5), lale_num_samples |-> None,
     lale_num_grids |-> None, pgo |-> None, observer |-> None]

\* an exception object: its class and the call that raised it
Exc(cls, raisedBy) == [cls |-> cls, raisedBy |-> raisedBy]
NoExc == Exc("", "")

\* how an operation ended: it returned val, or raised exc
Returned(op, val) == [op |-> op, outcome |-> "return", exc |-> NoExc, val |-> val]
Raised(op, exc) == [op |-> op, outcome |-> "raise", exc |-> exc, val |-> None]
NoResult == [op |-> "", outcome |-> "", exc |-> NoExc, val |-> None]

\* `observer is not None and isinstance(observer, type)`
IsObserverClass(observer) == observer # None /\ observer.t = "class"

\* a fault: the observer is stored as given, a class is not instantiated
InitObserverAsGiven(observer) == observer

InitObserver(observer) ==
    IF IsObserverClass(observer) THEN Instantiate(observer) ELSE observer

\* estimator.is_classifier() on estimator None: None has no such attribute
InitRaises(estimator, scoring) == scoring = None /\ estimator = None

\* a fault: the two defaults the wrong way round
DefaultScoringSwapped(estimator) ==
    IF is_classifier(estimator) THEN PyStr("r2") ELSE PyStr("accuracy")

DefaultScoring(estimator) ==
    IF is_classifier(estimator) THEN PyStr("accuracy") ELSE PyStr("r2")

InitScoring(estimator, scoring) ==
    IF scoring = None THEN DefaultScoring(estimator) ELSE scoring

\* self._hyperparams as __init__ stores it
Hyperparams(a) ==
    [estimator |-> a.estimator,
     cv |-> a.cv,
     scoring |-> InitScoring(a.estimator, a.scoring),
     n_jobs |-> a.n_jobs,
     lale_num_samples |-> a.lale_num_samples,
     lale_num_grids |-> a.lale_num_grids,
     pgo |-> a.pgo,
     hp_grid |-> a.param_grid,
     observer |-> InitObserver(a.observer)]

\* the argument lists of the constructor calls the model makes
HGSArgs ==
    { [HGSCtorDefaults EXCEPT !.estimator = e, !.param_grid = pg,
                              !.scoring = sc, !.observer = ob,
                              !.lale_num_samples = g.lale_num_samples,
                              !.lale_num_grids = g.lale_num_grids,
                              !.pgo = g.pgo] :
        e \in Estimators, pg \in ParamGrids, sc \in Scorings,
        ob \in Observers, g \in GenArgs }

Construct ==
    \E a \in HGSArgs :
        /\ ctorArgs = None
        /\ ctorArgs' = a
        /\ nInst' = nInst + (IF IsObserverClass(a.observer) THEN 1 ELSE 0)
        /\ IF InitRaises(a.estimator, a.scoring)
           THEN /\ hp' = hp
                /\ result' = Raised("__init__", Exc("AttributeError", "is_classifier"))
           ELSE /\ hp' = Hyperparams(a)
                /\ result' = Returned("__init__", None)
        /\ UNCHANGED <<best, grid, calls, fitted, dtrVars, resVars, dummy>>

---------------------------------------------------------------------------
(* _HalvingGridSearchCVImpl.fit *)

\* the (X, y) a caller passes
Data == {[X |-> "X1", y |-> "y1"], [X |-> "X2", y |-> "y2"]}

\* the exceptions the external search can raise: KeyboardInterrupt is a
\* BaseException that is no Exception
SearchExcClasses == {"ValueError", "KeyboardInterrupt"}

\* what constructing and running the external search can do: the constructor
\* raises, its fit raises, or it leaves a best_estimator_ that is a fitted
\* clone of the estimator it was handed, or another object, whose _impl is
\* something else or absent
SearchOutcomes ==
    { [kind |-> "raise", exc |-> Exc(c, by), impl |-> ""] :
        c \in SearchExcClasses, by \in {"HalvingGridSearchCV", "grid.fit"} }
    \cup
    { [kind |-> "ok", exc |-> NoExc, impl |-> i] :
        i \in {"clone", "OtherImpl", "absent"} }

\* what the final be.fit(X, y) can do
RefitOutcomes == {"ok", "raise"}

\* the estimator: LogisticRegression when the hyperparameter is None
FitOp(h) ==
    IF h.estimator = None THEN LogisticRegression ELSE h.estimator

\* lale.lib.lale.Observing(op=op, observer=obs); its _impl is an
\* ObservingImpl that holds op and obs
Observing(op, obs) == [t |-> "Observing", op |-> op, observer |-> obs]

\* a fault: the operator is wrapped only when there is an observer
ObservedOpIfObserver(op, obs) ==
    IF obs = None THEN op ELSE Observing(op, obs)

\* observed_op: the operator is always wrapped, with or without an observer
ObservedOp(op, obs) == Observing(op, obs)

\* lale.sklearn_compat.make_sklearn_compat(op)
make_sklearn_compat(op) == [t |-> "sklearn_compat", base |-> op]

\* lale.helpers.fold_schema(X, y, cv, is_classifier)
fold_schema(X, y, cv, is_clf) ==
    [t |-> "schema", X |-> X, y |-> y, cv |-> cv, is_classifier |-> is_clf]

\* `assert isinstance(hp_grid, dict)` fails: the grid is neither None, a list
\* nor a dict
GridAssertFails(pg) == pg # None /\ pg.t \notin {"list", "dict"}

\* a fault: only the dicts of a list are nested, a single dict is not
NestGridListOnly(pg) ==
    IF pg.t = "list"
    THEN PyList(nest_all_HPparams("op", pg.l))
    ELSE pg

\* a grid given by the caller gets one more level of nesting, "op"
NestGrid(pg) ==
    IF pg.t = "list"
    THEN PyList(nest_all_HPparams("op", pg.l))
    ELSE PyDict(nest_HPparams("op", pg.d))

\* the call that generates the grid when none is given
GetParameterGridsCall(h, observed_op, data_schema, generated) ==
    [call |-> "get_parameter_grids", op |-> observed_op,
     num_samples |-> h.lale_num_samples, num_grids |-> h.lale_num_grids,
     pgo |-> h.pgo, data_schema |-> data_schema, returned |-> generated]

\* a fault: an empty grid is left empty
EffectiveGridNoDefaults(g, op, observed_op) == g

\* an empty grid of an individual operator becomes the operator's defaults
EffectiveGrid(g, op, observed_op) ==
    IF ~Truthy(g) /\ IsIndividualOp(op)
    THEN PyList(<<get_defaults_as_param_grid(observed_op)>>)
    ELSE g

\* impl.startObserving("optimize", hp_grid=..., op=..., ...)
StartCall(h, hp_grid, op) ==
    [call |-> "startObserving", phase |-> "optimize", hp_grid |-> hp_grid,
     op |-> op, num_samples |-> h.lale_num_samples,
     num_grids |-> h.lale_num_grids, pgo |-> h.pgo]

\* impl.failObserving("optimize", e)
FailCall(e) == [call |-> "failObserving", phase |-> "optimize", exc |-> e]

\* obs_impl.endObserving("optimize", best=be)
EndCall(be) == [call |-> "endObserving", phase |-> "optimize", best |-> be]

\* sklearn.model_selection.HalvingGridSearchCV(estimator, hp_grid, cv=...,
\* scoring=..., n_jobs=...)
SearchCall(h, observed_op, hp_grid) ==
    [call |-> "HalvingGridSearchCV",
     estimator |-> make_sklearn_compat(observed_op),
     param_grid |-> hp_grid, cv |-> h.cv, scoring |-> h.scoring,
     n_jobs |-> h.n_jobs, raised |-> NoExc]

\* self.grid.fit(X, y)
SearchFitCall(X, y) ==
    [call |-> "grid.fit", X |-> X, y |-> y, raised |-> NoExc]

\* be.fit(X, y)
RefitCall(be, X, y) ==
    [call |-> "be.fit", be |-> be, X |-> X, y |-> y, raised |-> NoExc]

\* a call that ended by raising e
Raising(call, e) == [call EXCEPT !.raised = e]

\* the _impl an sklearn-compatible estimator forwards to: its base's
ImplOf(estimator) ==
    IF estimator.base.t = "Observing" THEN "ObservingImpl" ELSE "OperatorImpl"

\* self.grid.best_estimator_ after a search that was handed `estimator`
BestEstimator(estimator, impl) ==
    [t |-> "best_estimator_", of |-> estimator,
     impl |-> IF impl = "clone" THEN ImplOf(estimator) ELSE impl]

\* getattr(be, "_impl", None) is not None
HasImpl(be) == be.impl # "absent"

\* isinstance(impl, ObservingImpl)
IsObservingImpl(be) == be.impl = "ObservingImpl"

\* ObservingImpl.getOp(): the operator inside the Observing wrapper, with the
\* hyperparameters the search chose
getOp(be) == [t |-> "configured", op |-> be.of.base.op]

\* a fault: `except Exception`, which lets a KeyboardInterrupt pass
CatchesExceptionOnly(e) == e.cls # "KeyboardInterrupt"

\* `except BaseException` catches every exception
Catches(e) == TRUE

\* what be.fit(X, y) returns
Trained(be, X, y) == [t |-> "trained", of |-> be, X |-> X, y |-> y]

\* the state fit leaves and how it ends
FitEnd(b, g, c, r) == [best |-> b, grid |-> g, calls |-> c, result |-> r]

\* lines 152-153: self._best_estimator = be.fit(X, y); return self
Refit(b, g, c, be, X, y, refit) ==
    LET e == Exc("ValueError", "be.fit")
    IN  IF refit = "raise"
        THEN FitEnd(b, g, Append(c, Raising(RefitCall(be, X, y), e)),
                    Raised("fit", e))
        ELSE FitEnd(Trained(be, X, y), g, Append(c, RefitCall(be, X, y)),
                    Returned("fit", [t |-> "self"]))

\* lines 107-147: the search, from startObserving to endObserving
Search(h, b, g, c, op, observed_op, hp_grid, X, y, so, refit) ==
    LET obs == h.observer
        search == SearchCall(h, observed_op, hp_grid)
        c1 == IF obs # None THEN Append(c, StartCall(h, hp_grid, op)) ELSE c
        ctorRaises == so.kind = "raise" /\ so.exc.raisedBy = "HalvingGridSearchCV"
        fitRaises == so.kind = "raise" /\ so.exc.raisedBy = "grid.fit"
        c2 == Append(c1, IF ctorRaises THEN Raising(search, so.exc) ELSE search)
        c3 == IF ctorRaises
              THEN c2
              ELSE Append(c2, IF fitRaises
                              THEN Raising(SearchFitCall(X, y), so.exc)
                              ELSE SearchFitCall(X, y))
        \* self.grid is assigned once the constructor has returned
        g1 == IF ctorRaises
              THEN g
              ELSE [t |-> "HalvingGridSearchCV", estimator |-> search.estimator,
                    param_grid |-> search.param_grid, cv |-> search.cv,
                    scoring |-> search.scoring, n_jobs |-> search.n_jobs]
        be0 == BestEstimator(search.estimator, so.impl)
    IN  IF so.kind = "raise"
        THEN FitEnd(b, g1,
                    IF Catches(so.exc) /\ obs # None
                    THEN Append(c3, FailCall(so.exc))
                    ELSE c3,
                    Raised("fit", so.exc))
        ELSE IF ~HasImpl(be0)
        THEN Refit(b, g1, c3, be0, X, y, refit)
        ELSE IF ~IsObservingImpl(be0)
        THEN FitEnd(b, g1, c3, Raised("fit", Exc("AssertionError", "fit")))
        ELSE Refit(b, g1,
                   IF obs # None THEN Append(c3, EndCall(getOp(be0))) ELSE c3,
                   getOp(be0), X, y, refit)

\* lines 148-150: no grid to search, the operator itself is fit
NoSearch(b, g, c, op, X, y, refit) ==
    IF ~IsTrainableOperator(op)
    THEN FitEnd(b, g, c, Raised("fit", Exc("AssertionError", "fit")))
    ELSE Refit(b, g, c, op, X, y, refit)

\* fit(X, y) on an optimizer whose hyperparameters are h, with the outcomes
\* of the calls it makes: `generated` from get_parameter_grids, `so` from the
\* external search, `refit` from the final be.fit
FitRun(h, b, g, X, y, generated, so, refit) ==
    LET op == FitOp(h)
        observed_op == ObservedOp(op, h.observer)
        data_schema == fold_schema(X, y, h.cv, is_classifier(op))
        c0 == IF h.hp_grid = None
              THEN <<GetParameterGridsCall(h, observed_op, data_schema, generated)>>
              ELSE <<>>
    IN  IF GridAssertFails(h.hp_grid)
        THEN FitEnd(b, g, c0, Raised("fit", Exc("AssertionError", "fit")))
        ELSE LET hp_grid ==
                   EffectiveGrid(IF h.hp_grid = None THEN generated
                                 ELSE NestGrid(h.hp_grid),
                                 op, observed_op)
             IN  IF Truthy(hp_grid)
                 THEN Search(h, b, g, c0, op, observed_op, hp_grid, X, y, so, refit)
                 ELSE NoSearch(b, g, c0, op, X, y, refit)

\* _HalvingGridSearchCVImpl.fit(X, y), from its first line to its return or
\* raise; the outcomes of the calls it makes are the action's choices
Fit ==
    \E d \in Data, generated \in GeneratedGrids, so \in SearchOutcomes,
       refit \in RefitOutcomes :
        /\ hp # None
        /\ \E end \in {FitRun(hp, best, grid, d.X, d.y, generated, so, refit)} :
               /\ best' = end.best
               /\ grid' = end.grid
               /\ calls' = end.calls
               /\ result' = end.result
               /\ fitted' = (fitted \/ end.result.outcome = "return")
        /\ UNCHANGED <<ctorArgs, hp, nInst, dtrVars, resVars, dummy>>

---------------------------------------------------------------------------
(* _HalvingGridSearchCVImpl.predict and get_pipeline *)

\* how predict or get_pipeline ended: what it was called with, and what it
\* returned or raised
QueryEnd(op, args, outcome, exc, val) ==
    [op |-> op, args |-> args, outcome |-> outcome, exc |-> exc, val |-> val]

\* the X a caller passes to predict
PredictXs == {"X1", "X2"}

\* what self._best_estimator.predict(X) can do
PredictOutcomes == {"ok", "raise"}

\* the value self._best_estimator.predict(X) returns
BestPredict(b, X) == [t |-> "prediction", by |-> b, X |-> X]

\* a fault: predict without the assertion
PredictNeverAsserts(b) == FALSE

\* `assert self._best_estimator is not None` fails
PredictAsserts(b) == b = None

Predict ==
    \E X \in PredictXs, po \in PredictOutcomes :
        /\ hp # None
        /\ result' =
              IF PredictAsserts(best)
              THEN QueryEnd("predict", [X |-> X], "raise",
                            Exc("AssertionError", "predict"), None)
              ELSE IF po = "raise"
              THEN QueryEnd("predict", [X |-> X], "raise",
                            Exc("ValueError", "_best_estimator.predict"), None)
              ELSE QueryEnd("predict", [X |-> X], "return", NoExc,
                            BestPredict(best, X))
        /\ UNCHANGED <<ctorArgs, hp, best, grid, calls, nInst, fitted,
                       dtrVars, resVars, dummy>>

\* the pipeline_name and astype arguments a caller passes to get_pipeline
PipelineNames == {None, PyStr("pipeline1")}
Astypes == {"lale", "sklearn", "onnx"}

\* a fault: astype is checked before the stored estimator is looked at
GetPipelineAssertFirst(b, pipeline_name, astype) ==
    LET args == [pipeline_name |-> pipeline_name, astype |-> astype]
    IN  IF pipeline_name # None
        THEN QueryEnd("get_pipeline", args, "raise",
                      Exc("NotImplementedError", "get_pipeline"), None)
        ELSE IF astype \notin {"lale", "sklearn"}
        THEN QueryEnd("get_pipeline", args, "raise",
                      Exc("AssertionError", "get_pipeline"), None)
        ELSE IF b = None \/ astype = "lale"
        THEN QueryEnd("get_pipeline", args, "return", NoExc, b)
        ELSE QueryEnd("get_pipeline", args, "return", NoExc,
                      make_sklearn_compat(b))

\* get_pipeline(pipeline_name, astype) on an optimizer whose _best_estimator
\* is b
GetPipelineRun(b, pipeline_name, astype) ==
    LET args == [pipeline_name |-> pipeline_name, astype |-> astype]
    IN  IF pipeline_name # None
        THEN QueryEnd("get_pipeline", args, "raise",
                      Exc("NotImplementedError", "get_pipeline"), None)
        ELSE IF b = None \/ astype = "lale"
        THEN QueryEnd("get_pipeline", args, "return", NoExc, b)
        ELSE IF astype # "sklearn"
        THEN QueryEnd("get_pipeline", args, "raise",
                      Exc("AssertionError", "get_pipeline"), None)
        ELSE QueryEnd("get_pipeline", args, "return", NoExc,
                      make_sklearn_compat(b))

GetPipeline ==
    \E pipeline_name \in PipelineNames, astype \in Astypes :
        /\ hp # None
        /\ result' = GetPipelineRun(best, pipeline_name, astype)
        /\ UNCHANGED <<ctorArgs, hp, best, grid, calls, nInst, fitted,
                       dtrVars, resVars, dummy>>

---------------------------------------------------------------------------
(* DecisionTreeRegressorImpl *)

\* the defaults of the constructor's parameters
DTRCtorDefaults ==
    [criterion |-> PyStr("mse"), splitter |-> PyStr("best"),
     max_depth |-> None, min_samples_split |-> PyInt(2),
     min_samples_leaf |-> PyInt(1), min_weight_fraction_leaf |-> PyFloat(0),
     max_features |-> None, random_state |-> None, max_leaf_nodes |-> None,
     min_impurity_decrease |-> PyFloat(0), min_impurity_split |-> None,
     presort |-> PyBool(FALSE)]

DTRNames == DOMAIN DTRCtorDefaults

\* a value other than the default, for each constructor argument a caller gives
DTRGiven ==
    [criterion |-> PyStr("mae"), splitter |-> PyStr("random"),
     max_depth |-> PyInt(3), min_samples_split |-> PyFloat(50),
     min_samples_leaf |-> PyInt(5), min_weight_fraction_leaf |-> PyFloat(10),
     max_features |-> PyStr("sqrt"), random_state |-> PyInt(42),
     max_leaf_nodes |-> PyInt(8), min_impurity_decrease |-> PyFloat(1),
     min_impurity_split |-> PyFloat(5), presort |-> PyBool(TRUE)]

\* the constructor calls the model makes: which arguments the caller gives,
\* and the value each parameter is bound to
DTRArgs ==
    { [given |-> S,
       a |-> [h \in DTRNames |->
                IF h \in S THEN DTRGiven[h] ELSE DTRCtorDefaults[h]]] :
        S \in {T \in SUBSET DTRNames : Cardinality(T) <= MaxOverrides} }

\* self._hyperparams as __init__ stores it
DTRHyperparams(a) ==
    [criterion |-> a.criterion, splitter |-> a.splitter,
     max_depth |-> a.max_depth, min_samples_split |-> a.min_samples_split,
     min_samples_leaf |-> a.min_samples_leaf,
     min_weight_fraction_leaf |-> a.min_weight_fraction_leaf,
     max_features |-> a.max_features, random_state |-> a.random_state,
     max_leaf_nodes |-> a.max_leaf_nodes,
     min_impurity_decrease |-> a.min_impurity_decrease,
     min_impurity_split |-> a.min_impurity_split, presort |-> a.presort]

\* sklearn.tree.DecisionTreeRegressor(**kwargs): the id-th model object built,
\* not fitted yet
SklearnModel(id, kwargs) ==
    [t |-> "sklearn.tree.DecisionTreeRegressor", id |-> id,
     kwargs |-> kwargs, fitted |-> None]

\* the object __init__ leaves
DTRObject(a) ==
    [hyperparams |-> DTRHyperparams(a),
     wrapped |-> SklearnModel(1, DTRHyperparams(a))]

\* how an operation on the wrapper ended: what it was called with, the calls
\* it made on the wrapped model, and what it returned or raised
DTREnd(op, a, c, outcome, exc, val) ==
    [op |-> op, args |-> a, calls |-> c, outcome |-> outcome, exc |-> exc,
     val |-> val]

DTRConstruct ==
    \E c \in DTRArgs :
        /\ dtrArgs = None
        /\ dtrArgs' = c
        /\ dtr' = DTRObject(c.a)
        /\ dtrResult' = DTREnd("__init__", c.a, <<>>, "return", NoExc, None)
        /\ UNCHANGED <<hgsVars, resVars, dummy>>

\* the X and y a caller passes, and the keyword arguments after them
DTRXs == {"X1", "X2"}
DTRys == {"y1", "y2"}
FitParams == {[k \in {} |-> None], [k \in {"sample_weight"} |-> PyStr("w")]}

\* a fault: fit_params are not handed on
DTRFitArgsNoParams(X, y, fit_params) ==
    [X |-> X, y |-> y, fit_params |-> [k \in {} |-> None]]

\* what fit hands to the wrapped model's fit: X, y, **fit_params
DTRFitArgs(X, y, fit_params) == [X |-> X, y |-> y, fit_params |-> fit_params]

\* the wrapped model once its fit(X, y, **fit_params) has returned
SklearnFitted(model, a) == [model EXCEPT !.fitted = a]

\* what the wrapper's fit returns: the wrapper
DTRFitReturn(self, wrapped) == self

\* the value the wrapped model's predict(X) returns
SklearnPredict(model, X) == [t |-> "prediction", by |-> model, X |-> X]

\* what the wrapper's predict returns: what the wrapped model's returned
DTRPredictReturn(predicted) == predicted

\* the wrapped model after the wrapper's fit
DTRWrappedAfterFit(model, a) == SklearnFitted(model, a)

DTRFit ==
    \E X \in DTRXs, y \in DTRys, fit_params \in FitParams, raises \in BOOLEAN :
        /\ dtr # None
        /\ LET given == [X |-> X, y |-> y, fit_params |-> fit_params]
               a == DTRFitArgs(X, y, fit_params)
               e == Exc("ValueError", "_wrapped_model.fit")
               call == [call |-> "_wrapped_model.fit", args |-> a,
                        on |-> dtr.wrapped.id,
                        raised |-> IF raises THEN e ELSE NoExc,
                        returned |-> None]
           IN  IF raises
               THEN /\ dtr' = dtr
                    /\ dtrResult' = DTREnd("fit", given, <<call>>, "raise", e, None)
               ELSE /\ dtr' = [dtr EXCEPT !.wrapped = DTRWrappedAfterFit(@, a)]
                    /\ dtrResult' =
                         DTREnd("fit", given, <<call>>, "return", NoExc,
                                DTRFitReturn([t |-> "self"],
                                             [t |-> "wrapped", id |-> dtr.wrapped.id]))
        /\ UNCHANGED <<dtrArgs, hgsVars, resVars, dummy>>

DTRPredict ==
    \E X \in DTRXs :
        /\ dtr # None
        /\ LET given == [X |-> X]
               e == Exc("NotFittedError", "_wrapped_model.predict")
               \* a model that was never fitted raises
               raises == dtr.wrapped.fitted = None
               predicted == SklearnPredict(dtr.wrapped, X)
               call == [call |-> "_wrapped_model.predict", args |-> [X |-> X],
                        on |-> dtr.wrapped.id,
                        raised |-> IF raises THEN e ELSE NoExc,
                        returned |-> IF raises THEN None ELSE predicted]
           IN  dtrResult' =
                 IF raises
                 THEN DTREnd("predict", given, <<call>>, "raise", e, None)
                 ELSE DTREnd("predict", given, <<call>>, "return", NoExc,
                             DTRPredictReturn(predicted))
        /\ UNCHANGED <<dtrArgs, dtr, hgsVars, resVars, dummy>>

---------------------------------------------------------------------------
(* The resampler operators of lale.lib.imblearn, as the interoperability   *)
(* tests use them                                                          *)

\* the resamplers the test is run for
Resamplers ==
    { "SMOTE", "SMOTEENN", "ADASYN", "BorderlineSMOTE", "SVMSMOTE",
      "RandomOverSampler", "CondensedNearestNeighbour",
      "EditedNearestNeighbours", "RepeatedEditedNearestNeighbours", "AllKNN",
      "InstanceHardnessThreshold" }

\* lale.operators.make_pipeline(step, ...)
make_pipeline(steps) == [t |-> "pipeline", steps |-> steps]

\* the operator arguments the tests construct a resampler with: none, or a
\* pipeline
ResOperators ==
    { None,
      make_pipeline(<<"LogisticRegression">>),
      make_pipeline(<<"PCA", "LogisticRegression">>),
      make_pipeline(<<"RandomForestClassifier">>) }

\* the train and test data of setUp
ResData == {[X |-> "X_train", y |-> "y_train"]}
ResXs == {"X_test"}

\* a fault: a resampler can be constructed without an operator
ResCtorNeverRaises(operator) == FALSE

\* a resampler's constructor raises ValueError without its operator argument
ResCtorRaises(operator) == operator = None

\* the estimator a resampler wraps: the last step of its operator
ResEstimator(operator) ==
    IF operator = None THEN "" ELSE operator.steps[Len(operator.steps)]

\* whether the sklearn estimator has a decision_function method
HasDecisionFunction(estimator) == estimator = "LogisticRegression"

\* a fault: a trained resampler has every method, whatever it wraps
ResLacksNothing(r, method) == FALSE

\* a trained resampler has no `method` when the estimator it wraps has none
ResLacks(r, method) ==
    method = "decision_function" /\ ~HasDecisionFunction(ResEstimator(r.operator))

\* class_() and class_(operator=...)
ResConstruct ==
    \E cls \in Resamplers, operator \in ResOperators :
        /\ IF ResCtorRaises(operator)
           THEN /\ res' = res
                /\ resResult' =
                      QueryEnd("__init__", [cls |-> cls, operator |-> operator],
                               "raise", Exc("ValueError", cls), None)
           ELSE /\ res' = [cls |-> cls, operator |-> operator, trained |-> None]
                /\ resResult' =
                      QueryEnd("__init__", [cls |-> cls, operator |-> operator],
                               "return", NoExc, None)
        /\ UNCHANGED <<hgsVars, dtrVars, dummy>>

\* trained = pipeline.fit(X_train, y_train)
ResFit ==
    \E d \in ResData :
        /\ res # None
        /\ res' = [res EXCEPT !.trained = d]
        /\ resResult' = QueryEnd("fit", d, "return", NoExc, [t |-> "trained"])
        /\ UNCHANGED <<hgsVars, dtrVars, dummy>>

\* trained.predict(X_test), trained.decision_function(X_test)
ResCall ==
    \E X \in ResXs, method \in {"predict", "decision_function"} :
        /\ res # None
        /\ res.trained # None
        /\ resResult' =
              IF ResLacks(res, method)
              THEN QueryEnd(method, [X |-> X], "raise",
                            Exc("AttributeError", method), None)
              ELSE QueryEnd(method, [X |-> X], "return", NoExc,
                            [t |-> method, by |-> res, X |-> X])
        /\ UNCHANGED <<res, hgsVars, dtrVars, dummy>>

---------------------------------------------------------------------------
(* The hyperparameter schemas *)

\* JSON schema's "type": "integer", "number", "string", "boolean"
IsInteger(v) == v.t = "int"
IsNumber(v) == v.t \in {"int", "float"}
IsString(v) == v.t = "str"
IsBoolean(v) == v.t = "bool"

\* a number in hundredths
Hundredths(v) == IF v.t = "int" THEN 100 * v.v ELSE v.c

\* the "default" of each property of DecisionTreeRegressor's schema
DTRSchemaDefaults ==
    [criterion |-> PyStr("mse"), splitter |-> PyStr("best"),
     max_depth |-> None, min_samples_split |-> PyInt(2),
     min_samples_leaf |-> PyInt(1), min_weight_fraction_leaf |-> PyFloat(0),
     max_features |-> PyStr("auto"), random_state |-> None,
     max_leaf_nodes |-> None, min_impurity_decrease |-> PyFloat(0),
     min_impurity_split |-> None, presort |-> PyBool(FALSE)]

\* whether the schema of DecisionTreeRegressor's hyperparameter h accepts v
DTRSchemaAccepts(h, v) ==
    CASE h = "criterion" ->
           v \in {PyStr("mse"), PyStr("friedman_mse"), PyStr("mae")}
      [] h = "splitter" -> v \in {PyStr("best"), PyStr("random")}
      [] h = "max_depth" ->
           \/ IsInteger(v) /\ v.v >= 1
           \/ v = None
      [] h = "min_samples_split" ->
           \/ IsInteger(v) /\ v.v >= 2
           \/ IsNumber(v) /\ Hundredths(v) > 0 /\ Hundredths(v) <= 100
      [] h = "min_samples_leaf" ->
           \/ IsInteger(v) /\ v.v >= 1
           \/ IsNumber(v) /\ Hundredths(v) > 0 /\ Hundredths(v) <= 50
      [] h = "min_weight_fraction_leaf" -> IsNumber(v)
      [] h = "max_features" ->
           \/ IsInteger(v) /\ v.v >= 2
           \/ IsNumber(v) /\ Hundredths(v) > 0 /\ Hundredths(v) <= 100
           \/ v \in {PyStr("auto"), PyStr("sqrt"), PyStr("log2"), None}
      [] h = "random_state" ->
           \/ v.t = "numpy.random.RandomState"
           \/ v = None
           \/ IsInteger(v)
      [] h = "max_leaf_nodes" -> IsInteger(v) \/ v = None
      [] h = "min_impurity_decrease" -> IsNumber(v)
      [] h = "min_impurity_split" ->
           \/ IsNumber(v) /\ Hundredths(v) >= 0
           \/ v = None
      [] h = "presort" -> IsBoolean(v)
      [] OTHER -> FALSE

\* the "default" of each property of HalvingGridSearchCV's schema
HGSSchemaDefaults ==
    [estimator |-> None, cv |-> PyInt(5), scoring |-> None, n_jobs |-> None,
     lale_num_samples |-> None, lale_num_grids |-> None, param_grid |-> None,
     pgo |-> None, observer |-> None]

\* the scorers the schema names
KnownScorers ==
    { "accuracy", "explained_variance", "max_error", "roc_auc", "roc_auc_ovr",
      "roc_auc_ovo", "roc_auc_ovr_weighted", "roc_auc_ovo_weighted",
      "balanced_accuracy", "average_precision", "neg_log_loss",
      "neg_brier_score", "r2", "neg_mean_squared_error",
      "neg_mean_absolute_error", "neg_root_mean_squared_error",
      "neg_mean_squared_log_error", "neg_median_absolute_error" }

\* whether the schema of HalvingGridSearchCV's hyperparameter h accepts v
HGSSchemaAccepts(h, v) ==
    CASE h = "estimator" -> v.t = "op" \/ v = None
      [] h = "cv" -> IsInteger(v) /\ v.v >= 1
      [] h = "scoring" -> ~IsString(v) \/ v.v \in KnownScorers
      [] h = "n_jobs" ->
           \/ v = None
           \/ v = PyInt(-1)
           \/ IsInteger(v) /\ v.v >= 1
      [] h = "lale_num_samples" ->
           \/ IsInteger(v) /\ v.v >= 1
           \/ v = None
      [] h = "lale_num_grids" ->
           \/ v = None
           \/ IsNumber(v) /\ Hundredths(v) > 0 /\ Hundredths(v) < 100
           \/ IsInteger(v) /\ v.v >= 1
      [] h \in {"param_grid", "pgo", "observer"} -> TRUE
      [] OTHER -> FALSE

\* an object schema of the hyperparameters: its "properties", "required"
\* and "relevantToOptimizer" names and its "additionalProperties"; a keyword
\* the schema leaves out constrains nothing
ObjectSchema(properties, required, relevant, additional) ==
    [type |-> "object", properties |-> properties, required |-> required,
     relevantToOptimizer |-> relevant, additionalProperties |-> additional]

\* a fault: "additionalProperties": False left out
DummySchemaOpen == ObjectSchema({}, {}, {}, TRUE)

\* the one schema under "allOf" in DummyClassifier's _hyperparams_schema
DummyHyperparamsSchema == ObjectSchema({}, {}, {}, FALSE)

\* JSON schema validation of the dict d against an object schema
ObjectSchemaAccepts(schema, d) ==
    /\ schema.required \subseteq DOMAIN d
    /\ schema.additionalProperties \/ DOMAIN d \subseteq schema.properties

\* the hyperparameter dicts a caller gives DummyClassifier: any of the
\* arguments of sklearn.dummy.DummyClassifier, with some value
DummyNames == {"strategy", "random_state", "constant"}
DummyValues == {PyStr("prior"), PyStr("most_frequent"), PyInt(0), None}
DummyHyperparams == UNION {[S -> DummyValues] : S \in SUBSET DummyNames}

\* the hyperparameters d are validated against the schema
DummyValidate ==
    \E d \in DummyHyperparams :
        /\ dummy' = [hyperparams |-> d,
                     accepted |-> ObjectSchemaAccepts(DummyHyperparamsSchema, d)]
        /\ UNCHANGED <<hgsVars, dtrVars, resVars>>

---------------------------------------------------------------------------

Init ==
    /\ ctorArgs = None
    /\ hp = None
    /\ best = None
    /\ grid = None
    /\ calls = <<>>
    /\ result = NoResult
    /\ nInst = 0
    /\ fitted = FALSE
    /\ dtrArgs = None
    /\ dtr = None
    /\ dtrResult = DTREnd("", None, <<>>, "", NoExc, None)
    /\ res = None
    /\ resResult = NoResult
    /\ dummy = None

\* the halving grid-search optimizer
Next == Construct \/ Fit

Spec == Init /\ [][Next]_vars

\* the constructor calls after which the optimizer is fit and queried
UseArgs ==
    { [HGSCtorDefaults EXCEPT !.estimator = e, !.param_grid = pg,
                              !.observer = ob] :
        e \in Estimators \ {None},
        pg \in {None, PyDict(EmptyDict), PyDict(DictC)},
        ob \in {None, [t |-> "object", id |-> "observer0"]} }

\* an optimizer as one of these constructor calls leaves it
InitUse ==
    \E a \in UseArgs :
        /\ ctorArgs = a
        /\ hp = Hyperparams(a)
        /\ best = None
        /\ grid = None
        /\ calls = <<>>
        /\ result = Returned("__init__", None)
        /\ nInst = 0
        /\ fitted = FALSE
        /\ dtrArgs = None
        /\ dtr = None
        /\ dtrResult = DTREnd("", None, <<>>, "", NoExc, None)
        /\ res = None
        /\ resResult = NoResult
        /\ dummy = None

\* the optimizer in use: fits, predictions and get_pipeline in any order
NextUse == Fit \/ Predict \/ GetPipeline

SpecUse == InitUse /\ [][NextUse]_vars

\* DummyClassifier's hyperparameter schema
NextDummy == DummyValidate

SpecDummy == Init /\ [][NextDummy]_vars

\* the resamplers under the interoperability tests
NextRes == ResConstruct \/ ResFit \/ ResCall

SpecRes == Init /\ [][NextRes]_vars

\* the DecisionTreeRegressor wrapper
NextDTR == DTRConstruct \/ DTRFit \/ DTRPredict

SpecDTR == Init /\ [][NextDTR]_vars

---------------------------------------------------------------------------
(* Reading the record of the most recent fit *)

\* the places of the calls named `name` among those of the most recent fit
CallsNamed(name) == {i \in 1..Len(calls) : calls[i].call = name}

Count(name) == Cardinality(CallsNamed(name))

\* the most recent operation on the optimizer was a fit, and it has ended
FitEnded == result.op = "fit"

\* the calls in which constructing or running the external search raised
SearchRaised ==
    {i \in 1..Len(calls) :
        /\ calls[i].call \in {"HalvingGridSearchCV", "grid.fit"}
        /\ calls[i].raised # NoExc}

\* the external search was constructed, was run and came back
SearchSucceeded ==
    \E i \in CallsNamed("grid.fit") : calls[i].raised = NoExc

\* the operator fit searches over: the estimator, LogisticRegression for None
SearchedOp ==
    IF hp.estimator = None THEN LogisticRegression ELSE hp.estimator

\* the operator held inside the Observing wrapper the search returned
Winner == [t |-> "configured", op |-> SearchedOp]

IsStep(name) == name # "get_parameter_grids"

\* the names of the calls of the most recent fit from startObserving on
Steps == SelectSeq([i \in 1..Len(calls) |-> calls[i].call], IsStep)

---------------------------------------------------------------------------
(* The claims *)

\* C1 (as claimed): in every fit with an observer in which startObserving
\* was called, exactly one of endObserving and failObserving has been called
\* when fit returns or raises, whatever best_estimator_ the search returns.
C1_LifecycleClosure ==
    (FitEnded /\ hp.observer # None /\ Count("startObserving") > 0)
        => Count("endObserving") + Count("failObserving") = 1

\* C2: when constructing or running the external search raises e, fit raises
\* that same e, endObserving is not called and the final refit is not run;
\* with an observer failObserving("optimize", e) is called exactly once, after
\* the raising call, and without one no observer call is made.
C2_FailureRouting ==
    FitEnded =>
        \A i \in SearchRaised :
            /\ result = Raised("fit", calls[i].raised)
            /\ Count("endObserving") = 0
            /\ Count("be.fit") = 0
            /\ IF hp.observer # None
               THEN /\ Count("failObserving") = 1
                    /\ \A j \in CallsNamed("failObserving") :
                          /\ j > i
                          /\ calls[j].phase = "optimize"
                          /\ calls[j].exc = calls[i].raised
               ELSE /\ Count("failObserving") = 0
                    /\ Count("startObserving") = 0

\* C2's case: with an observer, the search's fit raised a KeyboardInterrupt,
\* which was routed to failObserving
C2_Witness ==
    /\ FitEnded
    /\ hp.observer # None
    /\ \E i \in SearchRaised :
          /\ calls[i].call = "grid.fit"
          /\ calls[i].raised.cls = "KeyboardInterrupt"
    /\ Count("failObserving") = 1
    /\ result.outcome = "raise"

\* C3 (as claimed): a fit with an observer that searched and returned made its
\* calls in the order startObserving, the search's construction and fit,
\* endObserving, the final refit.
C3_EventOrdering ==
    (/\ FitEnded
     /\ result.outcome = "return"
     /\ hp.observer # None
     /\ Count("HalvingGridSearchCV") > 0)
        => Steps = <<"startObserving", "HalvingGridSearchCV", "grid.fit",
                     "endObserving", "be.fit">>

\* C4 (as claimed): after every fit whose external search succeeded, the
\* operator that is refit, that _best_estimator holds trained and that
\* endObserving is told of is the operator inside the Observing wrapper, never
\* the object the search returned.
C4_UnwrapsWinner ==
    (FitEnded /\ SearchSucceeded) =>
        /\ \A i \in CallsNamed("be.fit") : calls[i].be = Winner
        /\ \A i \in CallsNamed("endObserving") : calls[i].best = Winner
        /\ result.outcome = "return" =>
              \E i \in CallsNamed("grid.fit") :
                  best = Trained(Winner, calls[i].X, calls[i].y)

\* C5 (as claimed): constructing with estimator=None succeeds whatever the
\* other arguments are, and every later fit searches over LogisticRegression.
C5_DefaultEstimator ==
    (ctorArgs # None /\ ctorArgs.estimator = None) =>
        /\ hp # None
        /\ \A i \in CallsNamed("HalvingGridSearchCV") :
              calls[i].estimator.base.op = LogisticRegression

\* C6: the stored scoring is the scoring argument, or for None "accuracy"
\* when the estimator is a classifier and "r2" when it is not; every search a
\* later fit constructs is handed the stored scoring.
C6_ScoringDefault ==
    hp # None =>
        /\ hp.scoring =
              IF ctorArgs.scoring # None THEN ctorArgs.scoring
              ELSE IF ctorArgs.estimator.classifier THEN PyStr("accuracy")
              ELSE PyStr("r2")
        /\ \A i \in CallsNamed("HalvingGridSearchCV") :
              calls[i].scoring = hp.scoring

\* C6's case: constructed with scoring=None and a regressor, a fit handed
\* "r2" to the search
C6_Witness ==
    /\ hp # None
    /\ ctorArgs.scoring = None
    /\ ~ctorArgs.estimator.classifier
    /\ \E i \in CallsNamed("HalvingGridSearchCV") :
          calls[i].scoring = PyStr("r2")

\* C7: the estimator every fit hands to the external search is the
\* sklearn-compatible form of Observing(op=op, observer=obs), with or without
\* an observer, for an individual operator and for a pipeline; without an
\* observer fit calls none of startObserving, endObserving, failObserving.
C7_UniformWrapping ==
    FitEnded =>
        /\ \A i \in CallsNamed("HalvingGridSearchCV") :
              calls[i].estimator =
                  make_sklearn_compat(
                      [t |-> "Observing", op |-> SearchedOp,
                       observer |-> hp.observer])
        /\ hp.observer = None =>
              Count("startObserving") + Count("endObserving")
                  + Count("failObserving") = 0

\* C7's case: a pipeline without an observer was searched and refit
C7_Witness ==
    /\ FitEnded
    /\ hp.observer = None
    /\ ~SearchedOp.individual
    /\ SearchSucceeded
    /\ result.outcome = "return"

\* every name of the grid g starts with "op"
AllUnderOp(g) ==
    IF g.t = "dict"
    THEN \A k \in DOMAIN g.d : Len(k) > 1 /\ Head(k) = "op"
    ELSE \A i \in 1..Len(g.l) :
            \A k \in DOMAIN g.l[i] : Len(k) > 1 /\ Head(k) = "op"

\* the dict n holds d's values under d's names prefixed with "op"
DictNestedAs(n, d) ==
    /\ DOMAIN n = {<<"op">> \o k : k \in DOMAIN d}
    /\ \A k \in DOMAIN d : n[<<"op">> \o k] = d[k]

\* the grid n is the caller's grid g with every name nested under "op"
NestedAs(n, g) ==
    /\ n.t = g.t
    /\ IF g.t = "dict"
       THEN DictNestedAs(n.d, g.d)
       ELSE /\ Len(n.l) = Len(g.l)
            /\ \A i \in 1..Len(g.l) : DictNestedAs(n.l[i], g.l[i])

\* C8: with param_grid None, fit generates the grid once, from the
\* Observing-wrapped operator and the stored lale_num_samples, lale_num_grids
\* and pgo, and searches the grid that came back unless it is empty; with a
\* dict or a list given, every name of the grid the search is handed lies
\* under "op", and a grid that is not empty is handed over as given but for
\* that nesting; with anything else fit fails an assertion having made no
\* call.
C8_GridNormalisation ==
    FitEnded =>
        LET pg == hp.hp_grid
        IN  /\ pg = None =>
                /\ CallsNamed("get_parameter_grids") = {1}
                /\ calls[1].op = [t |-> "Observing", op |-> SearchedOp,
                                  observer |-> hp.observer]
                /\ calls[1].num_samples = hp.lale_num_samples
                /\ calls[1].num_grids = hp.lale_num_grids
                /\ calls[1].pgo = hp.pgo
                /\ Truthy(calls[1].returned) =>
                      /\ Count("HalvingGridSearchCV") = 1
                      /\ \A i \in CallsNamed("HalvingGridSearchCV") :
                            calls[i].param_grid = calls[1].returned
            /\ (pg # None /\ pg.t \in {"dict", "list"}) =>
                /\ Count("get_parameter_grids") = 0
                /\ \A i \in CallsNamed("HalvingGridSearchCV") :
                      /\ AllUnderOp(calls[i].param_grid)
                      /\ Truthy(pg) => NestedAs(calls[i].param_grid, pg)
                /\ Truthy(pg) => Count("HalvingGridSearchCV") = 1
            /\ (pg # None /\ pg.t \notin {"dict", "list"}) =>
                /\ calls = <<>>
                /\ result = Raised("fit", Exc("AssertionError", "fit"))

\* C8's case: a dict with a hyperparameter in it was given and searched
C8_Witness ==
    /\ FitEnded
    /\ hp.hp_grid # None
    /\ hp.hp_grid.t = "dict"
    /\ <<"C">> \in DOMAIN hp.hp_grid.d
    /\ \E i \in CallsNamed("HalvingGridSearchCV") :
          <<"op", "C">> \in DOMAIN calls[i].param_grid.d

\* C9 (as claimed): in both wrappers every hyperparameter's schema default is
\* the default of the constructor parameter of that name, which is what an
\* object built with no arguments stores, and the schema accepts it.
C9_SchemaDefaultsMatchCode ==
    /\ \A h \in DOMAIN HGSSchemaDefaults :
          /\ HGSSchemaDefaults[h] = HGSCtorDefaults[h]
          /\ HGSSchemaAccepts(h, HGSSchemaDefaults[h])
    /\ \A h \in DOMAIN DTRSchemaDefaults :
          DTRSchemaAccepts(h, DTRSchemaDefaults[h])
    /\ (dtr # None /\ dtrArgs.given = {}) =>
          \A h \in DOMAIN DTRSchemaDefaults :
              dtr.hyperparams[h] = DTRSchemaDefaults[h]

\* C10: the wrapper keeps the twelve arguments it was built with, and the one
\* model it built from exactly those; fit calls that model's fit once with
\* the X, y and fit_params it was given and, when that returns, returns the
\* wrapper; predict calls that model's predict once with its X and returns
\* what it returned.
C10_PureDelegation ==
    dtr # None =>
        /\ dtr.hyperparams = dtrArgs.a
        /\ Cardinality(DOMAIN dtr.hyperparams) = 12
        /\ dtr.wrapped.id = 1
        /\ dtr.wrapped.kwargs = dtrArgs.a
        /\ dtrResult.op \in {"fit", "predict"} =>
              /\ Len(dtrResult.calls) = 1
              /\ dtrResult.calls[1].on = 1
              /\ IF dtrResult.calls[1].raised = NoExc
                 THEN dtrResult.outcome = "return"
                 ELSE /\ dtrResult.outcome = "raise"
                      /\ dtrResult.exc = dtrResult.calls[1].raised
        /\ dtrResult.op = "fit" =>
              /\ dtrResult.calls[1].call = "_wrapped_model.fit"
              /\ dtrResult.calls[1].args = dtrResult.args
              /\ dtrResult.outcome = "return" => dtrResult.val = [t |-> "self"]
        /\ dtrResult.op = "predict" =>
              /\ dtrResult.calls[1].call = "_wrapped_model.predict"
              /\ dtrResult.calls[1].args = dtrResult.args
              /\ dtrResult.outcome = "return" =>
                    dtrResult.val = dtrResult.calls[1].returned

\* C10's case: a wrapper built with arguments of the caller's was fit with
\* fit_params, and fit returned
C10_Witness ==
    /\ dtr # None
    /\ dtrArgs.given # {}
    /\ dtrResult.op = "fit"
    /\ dtrResult.outcome = "return"
    /\ "sample_weight" \in DOMAIN dtrResult.args.fit_params
    /\ dtr.wrapped.fitted = dtrResult.args

---------------------------------------------------------------------------

\* the grid of the most recent fit before line 102: what get_parameter_grids
\* returned, or the given grid nested under "op"
GridBeforeDefaults ==
    IF hp.hp_grid = None
    THEN calls[1].returned
    ELSE NestGrid(hp.hp_grid)

\* the most recent fit got as far as line 102
ReachedDefaults == FitEnded /\ ~GridAssertFails(hp.hp_grid)

\* C13: a fit of an individual operator always runs the search, on the
\* one-element list of the operator's defaults when the grid is empty; a fit
\* of another operator with an empty grid runs no search and emits no
\* observer event, fails an assertion unless the operator is trainable, and
\* otherwise fits the operator itself and stores the result.
C13_EmptyGrid ==
    ReachedDefaults =>
        LET op == IF hp.estimator = None THEN LogisticRegression
                  ELSE hp.estimator
            empty == ~Truthy(GridBeforeDefaults)
        IN  /\ op.individual =>
                  /\ Count("HalvingGridSearchCV") = 1
                  /\ empty =>
                        \A i \in CallsNamed("HalvingGridSearchCV") :
                            /\ calls[i].param_grid.t = "list"
                            /\ Len(calls[i].param_grid.l) = 1
                            /\ calls[i].param_grid.l[1] =
                                  get_defaults_as_param_grid(
                                      Observing(op, hp.observer))
            /\ (empty /\ ~op.individual) =>
                  /\ Count("HalvingGridSearchCV") = 0
                  /\ Count("grid.fit") = 0
                  /\ Count("startObserving") = 0
                  /\ Count("endObserving") = 0
                  /\ Count("failObserving") = 0
                  /\ IF ~op.trainable
                     THEN /\ result = Raised("fit", Exc("AssertionError", "fit"))
                          /\ Count("be.fit") = 0
                     ELSE /\ Count("be.fit") = 1
                          /\ \A i \in CallsNamed("be.fit") :
                                /\ calls[i].be = op
                                /\ result.outcome = "return" =>
                                      best = Trained(op, calls[i].X, calls[i].y)

\* C13's case: with an observer, a trainable pipeline and an empty grid, fit
\* returned having fit the pipeline itself
C13_Witness ==
    /\ ReachedDefaults
    /\ hp.observer # None
    /\ hp.estimator # None
    /\ ~hp.estimator.individual
    /\ ~Truthy(GridBeforeDefaults)
    /\ result.outcome = "return"
    /\ best.of = hp.estimator
    /\ Len(calls) > 0

\* C14: an observer given as a class is instantiated exactly once and the
\* instance is stored, one given as an object is stored as it is, None stays
\* None; every fit wraps the operator with the stored observer and emits
\* observer events only when it is not None.
C14_ObserverNormalisation ==
    /\ ctorArgs # None =>
          nInst = IF ctorArgs.observer # None /\ ctorArgs.observer.t = "class"
                  THEN 1 ELSE 0
    /\ hp # None =>
          /\ hp.observer =
                IF ctorArgs.observer # None /\ ctorArgs.observer.t = "class"
                THEN Instantiate(ctorArgs.observer)
                ELSE ctorArgs.observer
          /\ \A i \in CallsNamed("HalvingGridSearchCV") :
                calls[i].estimator.base.observer = hp.observer
          /\ \A i \in CallsNamed("get_parameter_grids") :
                calls[i].op.observer = hp.observer
          /\ hp.observer = None =>
                Count("startObserving") + Count("endObserving")
                    + Count("failObserving") = 0

\* C14's case: the observer was given as a class, and a fit searched with the
\* instance and reported to it
C14_Witness ==
    /\ hp # None
    /\ ctorArgs.observer.t = "class"
    /\ hp.observer.t = "object"
    /\ nInst = 1
    /\ FitEnded
    /\ Count("startObserving") = 1
    /\ \E i \in CallsNamed("HalvingGridSearchCV") :
          calls[i].estimator.base.observer = hp.observer

\* C15: get_pipeline changes nothing of the optimizer; with a pipeline_name
\* it raises NotImplementedError; without one it returns None for every
\* astype before any fit has returned, and afterwards the stored best
\* estimator for "lale", its sklearn-compat wrapping for "sklearn", and it
\* fails an assertion for any other astype.
C15_GetPipelineTable ==
    [][result'.op = "get_pipeline" =>
         /\ UNCHANGED <<ctorArgs, hp, best, grid, calls, nInst, fitted>>
         /\ LET a == result'.args
                raised(cls) ==
                    /\ result'.outcome = "raise"
                    /\ result'.exc.cls = cls
                returned(v) ==
                    /\ result'.outcome = "return"
                    /\ result'.val = v
            IN  IF a.pipeline_name # None THEN raised("NotImplementedError")
                ELSE IF ~fitted THEN returned(None)
                ELSE IF a.astype = "lale" THEN returned(best)
                ELSE IF a.astype = "sklearn"
                THEN returned([t |-> "sklearn_compat", base |-> best])
                ELSE raised("AssertionError")]_vars

\* C15's case: after a fit that returned, get_pipeline(astype="sklearn")
\* returned the wrapping of the stored best estimator
C15_Witness ==
    /\ fitted
    /\ result.op = "get_pipeline"
    /\ result.args.pipeline_name = None
    /\ result.args.astype = "sklearn"
    /\ result.outcome = "return"
    /\ result.val.t = "sklearn_compat"
    /\ result.val.base = best

\* C16: predict fails its assertion exactly when no fit of the optimizer has
\* returned so far; otherwise it ends as the stored best estimator's
\* predict(X) ends, with its value or its exception; it changes nothing of
\* the optimizer.
C16_PredictAvailability ==
    [][result'.op = "predict" =>
         /\ UNCHANGED <<ctorArgs, hp, best, grid, calls, nInst, fitted>>
         /\ (result'.exc.cls = "AssertionError") <=> ~fitted
         /\ fitted =>
               IF result'.outcome = "return"
               THEN result'.val =
                      [t |-> "prediction", by |-> best, X |-> result'.args.X]
               ELSE result'.exc.raisedBy = "_best_estimator.predict"]_vars

\* C16's case: a fit returned, a later fit raised, and predict still returned
\* the stored best estimator's prediction
C16_Witness ==
    /\ fitted
    /\ result.op = "predict"
    /\ result.outcome = "return"
    /\ result.val.by = best
    /\ SearchRaised # {}

\* C11: for every resampler of the list, constructing it without an operator
\* raises ValueError and leaves no object, constructing it with a pipeline
\* as operator succeeds, and the object so constructed is fit and then
\* predicts without an exception.
C11_ResamplerNeedsOperator ==
    /\ res # None => (res.cls \in Resamplers /\ res.operator # None)
    /\ resResult.op = "__init__" =>
          /\ resResult.args.cls \in Resamplers
          /\ IF resResult.args.operator = None
             THEN /\ resResult.outcome = "raise"
                  /\ resResult.exc.cls = "ValueError"
             ELSE /\ resResult.outcome = "return"
                  /\ res.cls = resResult.args.cls
                  /\ res.operator = resResult.args.operator
    /\ resResult.op = "fit" =>
          (resResult.outcome = "return" /\ res.trained # None)
    /\ resResult.op = "predict" =>
          (resResult.outcome = "return" /\ resResult.val.by = res)

\* C11's case: a resampler constructed with a two-step pipeline was fit and
\* predicted
C11_Witness ==
    /\ res # None
    /\ res.cls = "InstanceHardnessThreshold"
    /\ Len(res.operator.steps) = 2
    /\ res.trained # None
    /\ resResult.op = "predict"
    /\ resResult.outcome = "return"

\* C12: on a trained resampler predict succeeds, and decision_function raises
\* AttributeError exactly when the wrapped estimator has no
\* decision_function, as RandomForestClassifier has none.
C12_OnlyWrappedMethods ==
    /\ resResult.op = "predict" => resResult.outcome = "return"
    /\ resResult.op = "decision_function" =>
          LET wrapped == res.operator.steps[Len(res.operator.steps)]
          IN  /\ res.trained # None
              /\ IF wrapped = "RandomForestClassifier"
                 THEN /\ resResult.outcome = "raise"
                      /\ resResult.exc.cls = "AttributeError"
                 ELSE resResult.outcome = "return"

\* C12's case: SMOTE(operator=make_pipeline(RandomForestClassifier())) was
\* fit, and decision_function raised AttributeError
C12_Witness ==
    /\ res # None
    /\ res.cls = "SMOTE"
    /\ res.operator = make_pipeline(<<"RandomForestClassifier">>)
    /\ res.trained # None
    /\ resResult.op = "decision_function"
    /\ resResult.exc.cls = "AttributeError"

\* C17: DummyClassifier's hyperparameter schema declares no properties, no
\* required and no relevantToOptimizer names and forbids additional
\* properties, so it accepts the empty hyperparameter dict and no other.
C17_NoHyperparameters ==
    /\ DummyHyperparamsSchema.properties = {}
    /\ DummyHyperparamsSchema.additionalProperties = FALSE
    /\ DummyHyperparamsSchema.required = {}
    /\ DummyHyperparamsSchema.relevantToOptimizer = {}
    /\ dummy # None => (dummy.accepted <=> DOMAIN dummy.hyperparams = {})

\* C17's case: a dict naming strategy was validated and rejected
C17_Witness ==
    /\ dummy # None
    /\ DOMAIN dummy.hyperparams = {"strategy"}
    /\ dummy.hyperparams["strategy"] = PyStr("most_frequent")
    /\ ~dummy.accepted

====
